---------------------------- MODULE Spec2Model ----------------------------
(***************************************************************************)
(* A model of page_collector.py: the PageCollector class (clean_filename,  *)
(* extract_content, save_to_markdown, collect_from_urls, save_summary) and *)
(* the part of main() that drives one run.                                 *)
(*                                                                         *)
(* Strings are sequences of one-character strings.  The module is ASCII,   *)
(* so the Korean literals of the source are written as ASCII stand-ins:    *)
(* the Hangul syllable class of the regex is the character "K", the title  *)
(* placeholders and messages are named constants below.                    *)
(***************************************************************************)
EXTENDS Integers, Sequences, FiniteSets, TLC

VARIABLES
    \* ---- one run of main(): collect_from_urls + save_summary
    base_url,   \* PageCollector.base_url
    delay,      \* PageCollector.delay
    urls,       \* the urls argument of collect_from_urls
    i,          \* the loop index of collect_from_urls (1-based here)
    pc,         \* the position of the run
    url,        \* the loop's url, after resolution
    results,    \* the results list of collect_from_urls
    files,      \* the document files written under output_dir, in order
    events,     \* history: the fetches, writes, appends and sleeps so far
    summary,    \* the summary written by save_summary, or NoSummary
    raised,     \* the exception that left the run, or "none"
    \* ---- one call of extract_content
    resp,       \* what the server answered to session.get
    content,    \* the node chosen by the locator (NoNode: None)
    cleaned,    \* the elements left under content after the noise removal
    data,       \* the dict returned by extract_content
    \* ---- calls of clean_filename
    title,      \* an argument of clean_filename
    clean1,     \* clean_filename(title)
    clean2      \* clean_filename(clean_filename(title))

vars == <<base_url, delay, urls, i, pc, url, results, files, events, summary,
          raised, resp, content, cleaned, data, title, clean1, clean2>>

runVars == <<base_url, delay, urls, i, url, results, files, events, summary, raised>>
pageVars == <<resp, content, cleaned, data>>
cleanVars == <<title, clean1, clean2>>

-----------------------------------------------------------------------------
(* Bounds of the model *)

\* the longest URL list of a run
MaxUrls == 2
\* the most elements under the body of a generated document
MaxElems == 2
\* the most elements under the body of a document with articles
MaxArticleElems == 3
\* the most runs of equal characters a generated title is made of
MaxRuns == 2

-----------------------------------------------------------------------------
(* Characters and strings *)

\* "a": a letter, "_": the underscore, "K": a Hangul syllable (all \w);
\* "-": the hyphen; " " and "\t": whitespace (\s); "!" and "/": neither.
WordChars == {"a", "_", "K"}
SpaceChars == {" ", "\t"}
OtherChars == {"!", "/"}
Alphabet == WordChars \cup SpaceChars \cup OtherChars \cup {"-"}

IsSpace(c) == c \in SpaceChars

Min(a, b) == IF a < b THEN a ELSE b

\* str.strip(): the string without its leading and trailing whitespace
Strip(s) ==
    LET nonws == {p \in 1..Len(s) : ~IsSpace(s[p])}
    IN  IF nonws = {} THEN <<>>
        ELSE LET lo == CHOOSE p \in nonws : \A q \in nonws : p <= q
                 hi == CHOOSE p \in nonws : \A q \in nonws : q <= p
             IN  SubSeq(s, lo, hi)

\* a string of n copies of c
Repeat(c, n) == [k \in 1..n |-> c]

-----------------------------------------------------------------------------
(* clean_filename *)

\* the slice limit of clean_filename
FilenameLimit == 100

\* re.sub(r'[^\w\s<Hangul>-]', '', title): drop every character that is no
\* word character, no whitespace and no hyphen
RemoveSpecial(s) ==
    SelectSeq(s, LAMBDA c : c \in WordChars \cup SpaceChars \cup {"-"})

\* re.sub(r'\s+', '_', clean): every maximal run of whitespace becomes one "_"
CollapseSpace(s) ==
    LET idx == [p \in 1..Len(s) |-> p]
        kept == SelectSeq(idx, LAMBDA p : ~IsSpace(s[p]) \/ p = 1 \/ ~IsSpace(s[p - 1]))
    IN  [k \in 1..Len(kept) |-> IF IsSpace(s[kept[k]]) THEN "_" ELSE s[kept[k]]]

\* clean[:100]
Truncate(s) == SubSeq(s, 1, Min(Len(s), FilenameLimit))

\* a clean_filename whose return forgets the [:100] slice
clean_filename_NoLimit(t) == CollapseSpace(RemoveSpecial(t))

clean_filename(t) == Truncate(CollapseSpace(RemoveSpecial(t)))

-----------------------------------------------------------------------------
(* The parsed document (the BeautifulSoup tree) *)

\* A document is [title, hasBody, bodyText, elems]:
\*   title    <<>> when the document has no title element, else <<t>> with t
\*            the text of the first title element;
\*   hasBody  whether the document has a body element;
\*   bodyText the text directly under body, before its first child;
\*   elems    the elements under body in document order (pre-order), each
\*            [tag, cls, id, text, parent]: cls the set of its class tokens,
\*            text the text directly in it before its first child, parent the
\*            index of its parent element, 0 for body.
\* A node is NoNode (None), 0 (the body) or the index of an element.
NoNode == -1
BodyNode == 0

Elems(doc) == 1..Len(doc.elems)

RECURSIVE Ancestors(_, _)
Ancestors(doc, k) ==
    IF k <= 0 THEN {}
    ELSE {doc.elems[k].parent} \cup Ancestors(doc, doc.elems[k].parent)

\* the elements strictly below node n
Descendants(doc, n) == {k \in Elems(doc) : n \in Ancestors(doc, k)}

\* the elements of the subtree of element k, k included
Subtree(doc, k) == {k} \cup Descendants(doc, k)

OwnText(doc, n) == IF n = BodyNode THEN doc.bodyText ELSE doc.elems[n].text

RECURSIVE ConcatText(_, _, _)
\* the texts of the elements of S from index k on, in document order
ConcatText(doc, S, k) ==
    IF k > Len(doc.elems) THEN <<>>
    ELSE (IF k \in S THEN doc.elems[k].text ELSE <<>>) \o ConcatText(doc, S, k + 1)

\* Tag.get_text(): the text of node n and of its descendants among alive
get_text(doc, n, alive) ==
    OwnText(doc, n) \o ConcatText(doc, Descendants(doc, n) \cap alive, 1)

\* soup.find_all(tag): the elements with that tag, in document order
find_all(doc, tag) ==
    SelectSeq([k \in 1..Len(doc.elems) |-> k], LAMBDA k : doc.elems[k].tag = tag)

\* soup.find('body'): the body element, or None
find_body(doc) == IF doc.hasBody THEN BodyNode ELSE NoNode

\* a CSS selector of the source: a tag name, ".class" or "#id"
TagSel(name) == [kind |-> "tag", name |-> name]
ClassSel(name) == [kind |-> "class", name |-> name]
IdSel(name) == [kind |-> "id", name |-> name]

Matches(node, sel) ==
    CASE sel.kind = "tag" -> node.tag = sel.name
      [] sel.kind = "class" -> sel.name \in node.cls
      [] sel.kind = "id" -> node.id = sel.name

\* the elements matching sel
Select(doc, sel) == {k \in Elems(doc) : Matches(doc.elems[k], sel)}

\* soup.select_one(selector): the first match in document order, or None
select_one(doc, sel) ==
    IF sel = TagSel("body") THEN find_body(doc)
    ELSE IF Select(doc, sel) = {} THEN NoNode
    ELSE CHOOSE k \in Select(doc, sel) : \A j \in Select(doc, sel) : k <= j

-----------------------------------------------------------------------------
(* extract_content: the title *)

\* the placeholder of a document without a title element
NoTitleText == <<"n", "o", "_", "t", "i", "t", "l", "e">>
\* the title of an error result
ErrorTitle == <<"e", "r", "r", "o", "r">>
\* the content of a success result whose content node is None
NotFoundText == <<"n", "o", "t", "_", "f", "o", "u", "n", "d">>
\* the prefix of the content of an error result
ErrorPrefix == <<"e", "r", "r", ":", " ">>

\* title.get_text().strip() if title else the placeholder
title_text(doc) ==
    IF doc.title # <<>> THEN Strip(doc.title[1]) ELSE NoTitleText

-----------------------------------------------------------------------------
(* extract_content: the locator *)

content_selectors ==
    << TagSel("main"), ClassSel("content"), ClassSel("post-content"),
       ClassSel("entry-content"), IdSel("content"), ClassSel("main-content"),
       TagSel("body") >>

\* the key of max(): len(x.get_text().strip())
TextLen(doc, n) == Len(Strip(get_text(doc, n, Elems(doc))))

\* a max() that keeps the last of the greatest elements
PyMax_Last(doc, nodes) ==
    nodes[CHOOSE p \in 1..Len(nodes) :
            /\ \A q \in 1..Len(nodes) : TextLen(doc, nodes[q]) <= TextLen(doc, nodes[p])
            /\ \A q \in (p + 1)..Len(nodes) : TextLen(doc, nodes[q]) < TextLen(doc, nodes[p])]

\* max(articles, key=...): the first of the elements with the greatest key
PyMax(doc, nodes) ==
    nodes[CHOOSE p \in 1..Len(nodes) :
            /\ \A q \in 1..Len(nodes) : TextLen(doc, nodes[q]) <= TextLen(doc, nodes[p])
            /\ \A q \in 1..(p - 1) : TextLen(doc, nodes[q]) < TextLen(doc, nodes[p])]

\* whether the for loop breaks at the s-th selector
Qualifies(doc, s) ==
    /\ select_one(doc, content_selectors[s]) # NoNode
    /\ TextLen(doc, select_one(doc, content_selectors[s])) > 0

\* a selector loop that breaks at the first selector that matches anything
FallbackSelect_AnyMatch(doc) ==
    LET hits == {s \in 1..Len(content_selectors) :
                    select_one(doc, content_selectors[s]) # NoNode}
    IN  IF hits = {} THEN find_body(doc)
        ELSE select_one(doc, content_selectors[CHOOSE s \in hits : \A t \in hits : s <= t])

\* the for ... else over content_selectors
FallbackSelect(doc) ==
    LET hits == {s \in 1..Len(content_selectors) : Qualifies(doc, s)}
    IN  IF hits = {} THEN find_body(doc)
        ELSE select_one(doc, content_selectors[CHOOSE s \in hits : \A t \in hits : s <= t])

\* a locator whose else branch gives up instead of taking the body
Locate_NoBodyFallback(doc) ==
    LET articles == find_all(doc, "article")
        hits == {s \in 1..Len(content_selectors) : Qualifies(doc, s)}
    IN  IF articles # <<>>
        THEN IF Len(articles) > 1 THEN PyMax(doc, articles) ELSE articles[1]
        ELSE IF hits = {} THEN NoNode ELSE FallbackSelect(doc)

\* the choice of content
Locate(doc) ==
    LET articles == find_all(doc, "article")
    IN  IF articles # <<>>
        THEN IF Len(articles) > 1 THEN PyMax(doc, articles) ELSE articles[1]
        ELSE FallbackSelect(doc)

-----------------------------------------------------------------------------
(* extract_content: the removal of unwanted elements, the conversion *)

\* the unwanted_tags list, which the two loops below do not read
unwanted_tags ==
    << TagSel("script"), TagSel("style"), TagSel("nav"), TagSel("header"),
       TagSel("footer"), TagSel("aside"),
       ClassSel("md-nav"), ClassSel("md-header"), ClassSel("md-footer"),
       ClassSel("md-sidebar"), ClassSel("md-tabs"), ClassSel("md-tabs__list"),
       ClassSel("md-tabs__item"), ClassSel("md-header__title"),
       ClassSel("md-header__button"), ClassSel("md-footer__title"),
       ClassSel("md-footer__link") >>

\* the list of the first loop
noise_tag_names ==
    << TagSel("script"), TagSel("style"), TagSel("nav"), TagSel("header"),
       TagSel("footer"), TagSel("aside") >>

\* the list of the second loop
noise_class_names ==
    << ClassSel("md-nav"), ClassSel("md-header"), ClassSel("md-footer"),
       ClassSel("md-sidebar") >>

RECURSIVE DecomposeLoop(_, _, _, _, _)
\* for name in sels[k..]: for tag in content.find_all / content.select(name):
\* tag.decompose().  alive is the set of elements still in the tree.
DecomposeLoop(doc, c, alive, sels, k) ==
    IF k > Len(sels) THEN alive
    ELSE LET found == {e \in alive \cap Descendants(doc, c) :
                          Matches(doc.elems[e], sels[k])}
             gone == UNION {Subtree(doc, e) : e \in found}
         IN  DecomposeLoop(doc, c, alive \ gone, sels, k + 1)

\* the two loops, the tags first; the result is what is left under content
RemoveNoise(doc, c) ==
    LET afterTags == DecomposeLoop(doc, c, Elems(doc), noise_tag_names, 1)
        afterClasses == DecomposeLoop(doc, c, afterTags, noise_class_names, 1)
    IN  afterClasses \cap Descendants(doc, c)

\* the two loops in the other order
RemoveNoiseClassesFirst(doc, c) ==
    LET afterClasses == DecomposeLoop(doc, c, Elems(doc), noise_class_names, 1)
        afterTags == DecomposeLoop(doc, c, afterClasses, noise_tag_names, 1)
    IN  afterTags \cap Descendants(doc, c)

\* self.h.handle(str(content)): the text of what is left of the subtree (the
\* markup html2text adds is not modelled)
Convert(doc, c, alive) == get_text(doc, c, alive)

-----------------------------------------------------------------------------
(* extract_content *)

\* A response is [fault, msg, doc]: fault names the step of the try block
\* that raises ("none": no step does), msg is str(e), doc the parsed document.
NoUrl == [scheme |-> "", netloc |-> "", abs |-> FALSE, segs |-> <<>>]
NoData == [title |-> <<>>, url |-> NoUrl, content |-> <<>>, status |-> "none"]

\* an except branch whose content is str(e) alone
ErrorResult_NoPrefix(u, r) ==
    [node |-> NoNode, cleaned |-> {}, propagates |-> FALSE,
     data |-> [title |-> ErrorTitle, url |-> u, content |-> r.msg, status |-> "error"]]

\* the except branch
ErrorResult(u, r) ==
    [node |-> NoNode, cleaned |-> {}, propagates |-> FALSE,
     data |-> [title |-> ErrorTitle, url |-> u,
               content |-> ErrorPrefix \o r.msg, status |-> "error"]]

\* an extract_content whose except clause covers the request errors only:
\* what any other step raises reaches the caller
extract_content_RequestErrorsOnly(u, r) ==
    IF r.fault \in {"timeout", "connection", "http_status"} THEN ErrorResult(u, r)
    ELSE [node |-> NoNode, cleaned |-> {}, propagates |-> r.fault # "none",
          data |-> [NoData EXCEPT !.url = u]]

\* the outcome of extract_content(url) when the server answers r: the dict
\* returned (data), the content node and what the removal left under it;
\* propagates tells whether an exception leaves the call (except Exception
\* catches what every step raises)
extract_content(u, r) ==
    IF r.fault # "none" THEN ErrorResult(u, r)
    ELSE LET c == Locate(r.doc)
             left == IF c # NoNode THEN RemoveNoise(r.doc, c) ELSE {}
         IN  [node |-> c, cleaned |-> left, propagates |-> FALSE,
              data |-> [title |-> title_text(r.doc), url |-> u,
                        content |-> IF c # NoNode THEN Convert(r.doc, c, left)
                                    ELSE NotFoundText,
                        status |-> "success"]]

-----------------------------------------------------------------------------
(* The documents and responses the model draws from *)

Kind(tag, cls, id) == [tag |-> tag, cls |-> cls, id |-> id]

\* the elements a document of n elements can hold
Nodes(kinds, texts, n) ==
    {[tag |-> k.tag, cls |-> k.cls, id |-> k.id, text |-> t, parent |-> p] :
        k \in kinds, t \in texts, p \in 0..(n - 1)}

\* e lists the elements of a tree in document order: an element stands below
\* the element before it, below one of that element's ancestors, or below body
IsTree(e) ==
    /\ \A k \in 1..Len(e) : e[k].parent < k
    /\ \A k \in 2..Len(e) : e[k].parent \in {k - 1} \cup Ancestors([elems |-> e], k - 1)

EmptyDoc == [title |-> <<>>, hasBody |-> FALSE, bodyText |-> <<>>, elems |-> <<>>]

\* the failures of the steps of the try block
Faults ==
    {[fault |-> f, msg |-> <<"m">>, doc |-> EmptyDoc] :
        f \in {"timeout", "connection", "http_status", "parse", "locate", "strip"}}
    \cup {[fault |-> "convert", msg |-> <<>>, doc |-> EmptyDoc]}

Answer(d) == [fault |-> "none", msg |-> <<>>, doc |-> d]

NoResp == Answer(EmptyDoc)

ArticleKinds == {Kind("article", {}, ""), Kind("main", {}, ""), Kind("p", {}, "")}

SelectorKinds ==
    { Kind("article", {}, ""), Kind("main", {}, ""), Kind("div", {"content"}, ""),
      Kind("div", {"post-content"}, ""), Kind("div", {"entry-content"}, ""),
      Kind("div", {}, "content"), Kind("div", {"main-content"}, ""),
      Kind("p", {}, "") }

NoiseKinds ==
    {Kind(t, {}, "") : t \in {"script", "style", "nav", "header", "footer", "aside",
                               "article", "p"}}
    \cup {Kind("div", {c}, "") :
            c \in {"md-nav", "md-header", "md-footer", "md-sidebar", "md-tabs",
                   "md-tabs__list", "md-tabs__item", "md-header__title",
                   "md-header__button", "md-footer__title", "md-footer__link"}}
    \cup {Kind("nav", {"md-nav"}, ""), Kind("div", {"md-nav", "md-tabs"}, "")}

ArticleTexts == {<<>>, <<"x">>, <<" ", "x", "x">>}
SelectorTexts == {<<>>, <<" ">>, <<"x">>}
TitleTexts == {<<>>, <<" ">>, <<"\t", " ">>, <<"a">>, <<" ", "a", " ", "K", "\t">>}

-----------------------------------------------------------------------------
(* One call of extract_content on a drawn response *)

BaseUrl == [scheme |-> "https", netloc |-> "ex.com", abs |-> TRUE, segs |-> <<"docs", "page">>]
PageUrl == [scheme |-> "https", netloc |-> "ex.com", abs |-> TRUE, segs |-> <<"a">>]

IdleRun ==
    /\ base_url = BaseUrl /\ delay = 0 /\ urls = <<>> /\ i = 0
    /\ results = <<>> /\ files = <<>> /\ events = <<>> /\ summary = <<>>
    /\ raised = "none"
IdleClean == title = <<>> /\ clean1 = <<>> /\ clean2 = <<>>
IdlePage == resp = NoResp /\ content = NoNode /\ cleaned = {} /\ data = NoData

InitPage(kinds, texts, titles, bodyTexts, max) ==
    /\ pc = "page"
    /\ url = PageUrl
    /\ \/ resp \in Faults
       \/ \E t \in titles : resp = Answer([EmptyDoc EXCEPT !.title = t])
       \/ \E t \in titles, b \in bodyTexts, n \in 0..max :
              \E e \in [1..n -> Nodes(kinds, texts, n)] :
                  /\ IsTree(e)
                  /\ resp = Answer([title |-> t, hasBody |-> TRUE,
                                    bodyText |-> b, elems |-> e])
    /\ content = NoNode /\ cleaned = {} /\ data = NoData
    /\ IdleRun /\ IdleClean

ExtractPage ==
    /\ pc = "page"
    /\ LET r == extract_content(url, resp)
       IN  content' = r.node /\ cleaned' = r.cleaned /\ data' = r.data
    /\ pc' = IF extract_content(url, resp).propagates THEN "page_raised" ELSE "page_done"
    /\ UNCHANGED <<resp, runVars, cleanVars>>

NextPage == ExtractPage

InitArticle == InitPage(ArticleKinds, ArticleTexts, {<<>>}, {<<>>}, MaxArticleElems)
InitSelector == InitPage(SelectorKinds, SelectorTexts, {<<>>}, {<<>>, <<"x">>}, MaxElems)
InitNoise == InitPage(NoiseKinds, {<<"x">>}, {<<>>}, {<<>>}, MaxElems)
InitTitle ==
    InitPage({Kind("article", {}, ""), Kind("p", {}, "")}, {<<>>, <<"x">>},
             {<<>>} \cup {<<t>> : t \in TitleTexts}, {<<>>}, MaxElems)

SpecArticle == InitArticle /\ [][NextPage]_vars
SpecSelector == InitSelector /\ [][NextPage]_vars
SpecNoise == InitNoise /\ [][NextPage]_vars
SpecTitle == InitTitle /\ [][NextPage]_vars

-----------------------------------------------------------------------------
(* Calls of clean_filename on a drawn title *)

RECURSIVE Flatten(_, _)
\* the string made of the runs runs[k..]: each <<c, n>> is n copies of c
Flatten(runs, k) ==
    IF k > Len(runs) THEN <<>>
    ELSE Repeat(runs[k][1], runs[k][2]) \o Flatten(runs, k + 1)

\* a title of at most MaxRuns runs, each 1, 2, 99 or 100 copies of a character
InitClean ==
    /\ pc = "clean"
    /\ \E n \in 0..MaxRuns :
           \E runs \in [1..n -> Alphabet \X {1, 2, 99, 100}] : title = Flatten(runs, 1)
    /\ clean1 = <<>> /\ clean2 = <<>>
    /\ url = NoUrl
    /\ IdleRun /\ IdlePage

CleanOnce ==
    /\ pc = "clean"
    /\ clean1' = clean_filename(title)
    /\ pc' = "cleaned"
    /\ UNCHANGED <<title, clean2, runVars, pageVars>>

CleanAgain ==
    /\ pc = "cleaned"
    /\ clean2' = clean_filename(clean1)
    /\ pc' = "cleaned_again"
    /\ UNCHANGED <<title, clean1, runVars, pageVars>>

NextClean == CleanOnce \/ CleanAgain

SpecClean == InitClean /\ [][NextClean]_vars

-----------------------------------------------------------------------------
(* One run: collect_from_urls, then save_summary *)

\* url.startswith(('http://', 'https://'))
StartsWithHttp(u) == u.scheme \in {"http", "https"} /\ u.netloc # ""

\* urljoin(base, u): [raises, url].  urlsplit raises ValueError on a netloc
\* with an unbalanced bracket; an empty reference is the base; a reference
\* with another scheme is returned as it is; one with a netloc keeps its
\* netloc and path; an absolute path replaces the path of the base; a
\* relative path replaces the last segment of the path of the base.
urljoin(base, u) ==
    IF u.netloc = "[" THEN [raises |-> TRUE, url |-> NoUrl]
    ELSE IF u = NoUrl THEN [raises |-> FALSE, url |-> base]
    ELSE IF u.scheme # "" /\ u.scheme # base.scheme THEN [raises |-> FALSE, url |-> u]
    ELSE IF u.netloc # "" THEN [raises |-> FALSE, url |-> [u EXCEPT !.scheme = base.scheme]]
    ELSE IF u.abs THEN [raises |-> FALSE, url |-> [base EXCEPT !.segs = u.segs]]
    ELSE [raises |-> FALSE,
          url |-> [base EXCEPT !.segs = SubSeq(base.segs, 1, Len(base.segs) - 1) \o u.segs]]

\* the URLs a list is drawn from: absolute, relative, rooted, unparsable
UrlInputs ==
    { [scheme |-> "https", netloc |-> "ex.com", abs |-> TRUE, segs |-> <<"a">>],
      [scheme |-> "", netloc |-> "", abs |-> FALSE, segs |-> <<"a">>],
      [scheme |-> "", netloc |-> "", abs |-> TRUE, segs |-> <<"b">>],
      [scheme |-> "", netloc |-> "[", abs |-> TRUE, segs |-> <<>>] }

\* the answers of the server in a run: every failure, a page with a title and
\* an article, an empty page, a page with a blank title
RunResponses ==
    Faults \cup
    { Answer([title |-> << <<"a", " ", "!", "K">> >>, hasBody |-> TRUE, bodyText |-> <<>>,
              elems |-> << [tag |-> "article", cls |-> {}, id |-> "",
                            text |-> <<"x">>, parent |-> 0] >>]),
      Answer(EmptyDoc),
      Answer([EmptyDoc EXCEPT !.title = << <<" ">> >>]) }

Event(op, k, failed, secs) == [op |-> op, index |-> k, failed |-> failed, secs |-> secs]

\* a condition of the delay that holds for the last URL too
MustSleep_Always(k, n) == k <= n

\* the condition of the delay, i < len(urls) - 1, for the 1-based index k in
\* a list of n URLs
MustSleep(k, n) == k < n

\* results.append that leaves out the pages that failed
AppendEntry_SkipErrors(rs, e) == IF e.status = "error" THEN rs ELSE Append(rs, e)

\* results.append({...})
AppendEntry(rs, e) == Append(rs, e)

\* the summary dict of save_summary (collection_time left out)
Summarize(rs) ==
    [total_pages |-> Len(rs),
     success_count |-> Len(SelectSeq(rs, LAMBDA r : r.status = "success")),
     error_count |-> Len(SelectSeq(rs, LAMBDA r : r.status = "error")),
     results |-> rs]

\* main() after the configuration is read and checked: base_url and urls are
\* not empty, the collector is constructed, collect_from_urls starts
Init ==
    /\ pc = "resolve"
    /\ base_url = BaseUrl
    /\ delay \in {-1, 0, 1}
    /\ \E n \in 1..MaxUrls : urls \in [1..n -> UrlInputs]
    /\ i = 1
    /\ url = NoUrl
    /\ results = <<>> /\ files = <<>> /\ events = <<>> /\ summary = <<>>
    /\ raised = "none"
    /\ IdlePage /\ IdleClean

\* the head of the loop body: the relative URL is joined to base_url
Resolve ==
    /\ pc = "resolve"
    /\ IF StartsWithHttp(urls[i])
       THEN url' = urls[i] /\ pc' = "extract" /\ raised' = raised
       ELSE IF urljoin(base_url, urls[i]).raises
            THEN url' = url /\ pc' = "aborted" /\ raised' = "urljoin"
            ELSE url' = urljoin(base_url, urls[i]).url /\ pc' = "extract" /\ raised' = raised
    /\ UNCHANGED <<base_url, delay, urls, i, results, files, events, summary,
                   pageVars, cleanVars>>

\* data = self.extract_content(url)
Extract ==
    /\ pc = "extract"
    /\ \E r \in RunResponses :
         LET x == extract_content(url, r)
         IN  /\ resp' = r
             /\ content' = x.node /\ cleaned' = x.cleaned /\ data' = x.data
             /\ events' = Append(events, Event("fetch", i, r.fault # "none", 0))
             /\ IF x.propagates
                THEN pc' = "aborted" /\ raised' = "extract"
                ELSE pc' = "save" /\ raised' = raised
    /\ UNCHANGED <<base_url, delay, urls, i, url, results, files, summary, cleanVars>>

\* the file name, save_to_markdown and results.append; open() or write() may
\* raise OSError, which leaves collect_from_urls
Save ==
    /\ pc = "save"
    /\ LET filepath == [index |-> i, name |-> clean_filename(data.title)]
       IN  \/ /\ files' = Append(files, [path |-> filepath, title |-> data.title,
                                          url |-> data.url, status |-> data.status,
                                          content |-> data.content])
              /\ results' = AppendEntry(results, [url |-> url, title |-> data.title,
                                                  status |-> data.status,
                                                  filepath |-> filepath])
              /\ events' = events \o << Event("write", i, FALSE, 0),
                                        Event("append", i, FALSE, 0) >>
              /\ pc' = IF MustSleep(i, Len(urls)) THEN "sleep" ELSE "next"
              /\ raised' = raised
           \/ /\ pc' = "aborted" /\ raised' = "write"
              /\ UNCHANGED <<files, results, events>>
    /\ UNCHANGED <<base_url, delay, urls, i, url, summary, pageVars, cleanVars>>

\* time.sleep(self.delay), which raises ValueError on a negative delay
Sleep ==
    /\ pc = "sleep"
    /\ IF delay < 0
       THEN pc' = "aborted" /\ raised' = "sleep" /\ events' = events
       ELSE /\ events' = Append(events, Event("sleep", i, FALSE, delay))
            /\ pc' = "next"
            /\ raised' = raised
    /\ UNCHANGED <<base_url, delay, urls, i, url, results, files, summary,
                   pageVars, cleanVars>>

\* the for statement takes the next URL, or the loop ends
NextUrl ==
    /\ pc = "next"
    /\ IF i < Len(urls)
       THEN i' = i + 1 /\ pc' = "resolve"
       ELSE i' = i /\ pc' = "summary"
    /\ UNCHANGED <<base_url, delay, urls, url, results, files, events, summary,
                   raised, pageVars, cleanVars>>

\* collect_from_urls returns and save_summary writes the summary file; the
\* write may raise OSError
SaveSummary ==
    /\ pc = "summary"
    /\ \/ summary' = <<Summarize(results)>> /\ pc' = "done" /\ raised' = raised
       \/ summary' = summary /\ pc' = "aborted" /\ raised' = "summary_write"
    /\ UNCHANGED <<base_url, delay, urls, i, url, results, files, events,
                   pageVars, cleanVars>>

Next == Resolve \/ Extract \/ Save \/ Sleep \/ NextUrl \/ SaveSummary

Spec == Init /\ [][Next]_vars

\* the run is one thread: whenever it has a next step it takes it
FairSpec == Spec /\ WF_vars(Next)

-----------------------------------------------------------------------------
(* The claims about a run *)

\* the k-th URL of the list as the loop resolves it
Resolved(u) == IF StartsWithHttp(u) THEN u ELSE urljoin(base_url, u).url

FetchesAt == {p \in 1..Len(events) : events[p].op = "fetch"}
SleepsAt == {p \in 1..Len(events) : events[p].op = "sleep"}
FetchFailed(k) == \E p \in FetchesAt : events[p].index = k /\ events[p].failed
Returned == pc \in {"summary", "done"}

\* C1: when collect_from_urls has returned for a list of n URLs, results has
\* exactly n entries, the k-th with the resolved k-th URL of the list, and the
\* summary save_summary derives from them has total_pages = n and
\* success_count + error_count = n.
C1_OneEntryPerUrl ==
    /\ Returned =>
         /\ Len(results) = Len(urls)
         /\ \A k \in 1..Len(urls) : results[k].url = Resolved(urls[k])
    /\ pc = "done" =>
         /\ Len(summary) = 1
         /\ summary[1].total_pages = Len(urls)
         /\ summary[1].success_count + summary[1].error_count = Len(urls)
         /\ summary[1].results = results

\* a run of two URLs, the second one relative, one page a success and one a
\* failure, with its summary written
C1_Witness ==
    /\ pc = "done" /\ Len(urls) = 2
    /\ urls[2] # results[2].url
    /\ summary[1].success_count = 1 /\ summary[1].error_count = 1

\* C2: a failure of any step of extract_content does not leave the call: the
\* result has status error, the error title and a content that is not empty
\* (in the result, in the file written and in the entry appended), and the
\* loop goes on: a run that returns has an entry for every URL.
C2_FailureContained ==
    /\ raised # "extract"
    /\ (pc = "save" /\ resp.fault # "none") =>
         /\ data.status = "error" /\ data.title = ErrorTitle
         /\ Len(data.content) > 0 /\ data.url = url
    /\ \A k \in 1..Len(results) :
         FetchFailed(k) =>
           /\ results[k].status = "error" /\ results[k].title = ErrorTitle
           /\ files[k].status = "error" /\ Len(files[k].content) > 0
    /\ Returned => Len(results) = Len(urls)

\* a finished run whose first page failed with an exception of empty message
\* and whose second page was then fetched and succeeded
C2_Witness ==
    /\ pc = "done" /\ Len(urls) = 2
    /\ FetchFailed(1) /\ ~FetchFailed(2)
    /\ files[1].content = ErrorPrefix
    /\ results[2].status = "success"

\* C3, as claimed: once the run has started it completes, whatever the
\* outcome of the resolution, the extraction and the file write of each page:
\* every URL is processed and the summary is eventually written.
C3_RunAlwaysCompletes ==
    <>(pc = "done" /\ Len(results) = Len(urls) /\ summary # <<>>)

\* C3, amended: the run ends; it completes, with every URL processed and the
\* summary written, unless a step outside extract_content raises (the URL
\* resolution, a file write, the sleep); no outcome of an extraction keeps
\* the run from completing.
C3_CompletesUnlessRaised ==
    /\ <>(pc = "done" \/ raised \in {"urljoin", "write", "sleep", "summary_write"})
    /\ [](pc = "done" => Len(results) = Len(urls) /\ summary # <<>>)
    /\ [](raised # "none" => pc = "aborted" /\ summary = <<>>)

\* a completed run of two URLs in which every extraction failed
C3_Witness ==
    /\ pc = "done" /\ Len(urls) = 2 /\ summary # <<>>
    /\ FetchFailed(1) /\ FetchFailed(2)

\* C4: the pages are fetched one at a time in the order of the list; each
\* suspension lasts delay, follows the write and the append of a page that
\* is not the last and precedes the fetch of the next page; each page but
\* the first is fetched right after the suspension that follows the page
\* before it; a run over n URLs that returns had exactly n - 1 suspensions.
C4_DelayBetweenPages ==
    /\ \A p \in FetchesAt : events[p].index = Cardinality({q \in FetchesAt : q <= p})
    /\ \A p \in SleepsAt :
         /\ events[p].index < Len(urls)
         /\ events[p].secs = delay
         /\ p > 2
         /\ events[p - 1] = Event("append", events[p].index, FALSE, 0)
         /\ events[p - 2] = Event("write", events[p].index, FALSE, 0)
         /\ p < Len(events) =>
              events[p + 1].op = "fetch" /\ events[p + 1].index = events[p].index + 1
    /\ \A p \in FetchesAt :
         events[p].index > 1 =>
           /\ p > 1
           /\ events[p - 1].op = "sleep"
           /\ events[p - 1].index = events[p].index - 1
    /\ Returned => Cardinality(SleepsAt) = Len(urls) - 1

\* a finished run of two URLs with delay 1: one suspension, between the pages
C4_Witness ==
    /\ pc = "done" /\ Len(urls) = 2 /\ delay = 1
    /\ Cardinality(SleepsAt) = 1
    /\ events[Len(events)].op = "append"

-----------------------------------------------------------------------------
(* The claims about extract_content *)

Extracted == pc = "page_done" /\ resp.fault = "none"
Articles == find_all(resp.doc, "article")
ArticleSet == {Articles[k] : k \in 1..Len(Articles)}
DocTextLen(n) == TextLen(resp.doc, n)

C6_LongestArticle ==
    (Extracted /\ Articles # <<>>) =>
        /\ content \in ArticleSet
        /\ \A a \in ArticleSet : DocTextLen(a) <= DocTextLen(content)
        /\ \A a \in ArticleSet : a < content => DocTextLen(a) < DocTextLen(content)
        /\ Len(Articles) = 1 => content = Articles[1]

\* three articles, the second the longest and the first the shortest (as
\* with lengths 10, 50, 30), and a main element with text: the second article
C6_Witness ==
    /\ Extracted /\ Len(Articles) = 3
    /\ DocTextLen(Articles[1]) < DocTextLen(Articles[3])
    /\ DocTextLen(Articles[3]) < DocTextLen(Articles[2])
    /\ DocTextLen(Articles[1]) > 0
    /\ content = Articles[2]

\* the first element matching the s-th selector, NoNode if there is none
FirstMatch(s) == select_one(resp.doc, content_selectors[s])
HasText(s) == FirstMatch(s) # NoNode /\ DocTextLen(FirstMatch(s)) > 0

\* C7: without article elements the node is the first match of the first
\* selector of the list whose first match has a trimmed text that is not
\* empty; the list is main, .content, .post-content, .entry-content,
\* #content, .main-content, body; a main element with text wins; when no
\* selector qualifies the node is what find('body') gives.
C7_FirstQualifyingSelector ==
    (Extracted /\ Articles = <<>>) =>
        /\ \A s \in 1..Len(content_selectors) :
             (HasText(s) /\ \A t \in 1..(s - 1) : ~HasText(t)) => content = FirstMatch(s)
        /\ (\A s \in 1..Len(content_selectors) : ~HasText(s)) =>
             content = find_body(resp.doc)
        /\ content_selectors[1] = TagSel("main")
        /\ content_selectors[Len(content_selectors)] = TagSel("body")
        /\ HasText(1) => content = FirstMatch(1)

\* a main element without text before a .content element with text: the
\* .content element
C7_Witness ==
    /\ Extracted /\ Articles = <<>>
    /\ Len(resp.doc.elems) = 2
    /\ resp.doc.elems[1].tag = "main" /\ resp.doc.elems[1].text = <<" ">>
    /\ "content" \in resp.doc.elems[2].cls /\ resp.doc.elems[2].parent = 0
    /\ content = 2

IsUnwanted(k) ==
    \E s \in 1..Len(unwanted_tags) : Matches(resp.doc.elems[k], unwanted_tags[s])

\* C8, as claimed: what is left under the content node holds no element
\* with an unwanted tag or an unwanted class (any entry of unwanted_tags);
\* an element that is not unwanted and stands in no unwanted element is
\* left; the order of the two loops does not change the result.
C8_NoNoiseLeft ==
    (Extracted /\ content # NoNode) =>
        /\ \A k \in cleaned : ~IsUnwanted(k)
        /\ \A k \in Descendants(resp.doc, content) :
             (\A a \in ({k} \cup Ancestors(resp.doc, k)) \cap Descendants(resp.doc, content) :
                 ~IsUnwanted(a))
             => k \in cleaned
        /\ cleaned = RemoveNoiseClassesFirst(resp.doc, content)

\* C10, as claimed: the title of a success is the trimmed title of the
\* document, or the placeholder when the document has no title element or
\* a blank one; it is never empty.
C10_TitleOrPlaceholder ==
    Extracted =>
        /\ data.status = "success"
        /\ data.title = IF resp.doc.title = <<>> \/ Strip(resp.doc.title[1]) = <<>>
                        THEN NoTitleText
                        ELSE Strip(resp.doc.title[1])
        /\ data.title # <<>>

-----------------------------------------------------------------------------
(* The claim about clean_filename *)

\* C9: clean_filename applied to its own result gives that result; the
\* result has at most 100 characters; the empty title gives the empty name.
C9_CleanIdempotent ==
    /\ pc \in {"cleaned", "cleaned_again"} =>
         /\ Len(clean1) <= FilenameLimit
         /\ title = <<>> => clean1 = <<>>
    /\ pc = "cleaned_again" => clean2 = clean1

\* a title of more than 100 characters whose whitespace run crosses the
\* limit: the name has 100 characters and ends in the underscore
C9_Witness ==
    /\ pc = "cleaned_again"
    /\ Len(title) > FilenameLimit
    /\ title[FilenameLimit] = " " /\ title[FilenameLimit + 1] = " "
    /\ Len(clean1) = FilenameLimit /\ clean1[FilenameLimit] = "_"
    /\ clean2 = clean1

=============================================================================
